---- MODULE Spec2Model ----
(***************************************************************************)
(* Model of src/app_streamlit.py: the time parser (convertir_hora), the    *)
(* shift segmenter (dividir_por_dia, segmentar_por_franja), the Colombian  *)
(* holiday calendar, the overtime classifier and aggregator                *)
(* (procesar_excel) and the validation flow of the Streamlit script.       *)
(*                                                                         *)
(* Conventions.  A calendar date is its proleptic Gregorian ordinal (the   *)
(* value of Python's date.toordinal()); a datetime is the number of        *)
(* minutes since ordinal 0, so date() is division by 1440.  Durations are  *)
(* kept in minutes (the source divides seconds by 3600 to obtain float     *)
(* hours; minutes are exact, float rounding is not modelled).  A string    *)
(* is a sequence of one-character strings.                                 *)
(***************************************************************************)
EXTENDS Integers, Sequences, FiniteSets, TLC

VARIABLES
    \* --- convertir_hora applied to one raw value
    hora_str, hora_res, hora_pc,
    \* --- dividir_por_dia / segmentar_por_franja applied to one entry
    seg_in, bloques, seg_i, seg_bloque, seg_pc,
    \* --- the Streamlit validation flow and procesar_excel
    df, pc, informe, error, festivos_set, grupos, grupo, segmentos_turno, i,
    horas_ordinarias_restantes_por_dia, conceptos, resumen, traza

varsHora == <<hora_str, hora_res, hora_pc>>
varsSeg  == <<seg_in, bloques, seg_i, seg_bloque, seg_pc>>
varsPx   == <<df, pc, informe, error, festivos_set, grupos, grupo,
              segmentos_turno, i, horas_ordinarias_restantes_por_dia,
              conceptos, resumen, traza>>
vars     == <<varsHora, varsSeg, varsPx>>

(***************************************************************************)
(* Generic helpers on sequences.                                           *)
(***************************************************************************)
\* sum of a sequence of integers
RECURSIVE SumSeq(_)
SumSeq(s) == IF s = <<>> THEN 0 ELSE Head(s) + SumSeq(Tail(s))

RECURSIVE Concat(_)
Concat(ss) == IF ss = <<>> THEN <<>> ELSE Head(ss) \o Concat(Tail(ss))

Min2(a, b) == IF a <= b THEN a ELSE b
Max2(a, b) == IF a >= b THEN a ELSE b

\* Stable insertion of the pair x = <<key, value>> into the sequence s of pairs
\* sorted by key, after every pair whose key is <= the key of x.
RECURSIVE InsertSorted(_, _)
InsertSorted(s, x) ==
    IF s = <<>> THEN <<x>>
    ELSE IF Head(s)[1] <= x[1]
         THEN <<Head(s)>> \o InsertSorted(Tail(s), x)
         ELSE <<x>> \o s

RECURSIVE SortPairs(_)
SortPairs(s) ==
    IF s = <<>> THEN <<>>
    ELSE InsertSorted(SortPairs(SubSeq(s, 1, Len(s) - 1)), s[Len(s)])

\* The sequence s sorted by the integer keys keys[k] of its elements, elements
\* of equal key keeping their order (a stable sort, as list.sort is).
SortByKeys(s, keys) ==
    LET sorted == SortPairs([k \in 1 .. Len(s) |-> <<keys[k], s[k]>>] \o <<>>)
    IN  [k \in 1 .. Len(s) |-> sorted[k][2]] \o <<>>

(***************************************************************************)
(* datetime.date: ordinals, weekday, year.                                 *)
(***************************************************************************)
IsLeap(y) == (y % 4 = 0) /\ ((y % 100 # 0) \/ (y % 400 = 0))

DaysBeforeYear(y) ==
    (y - 1) * 365 + ((y - 1) \div 4) - ((y - 1) \div 100) + ((y - 1) \div 400)

DaysInMonth(y, m) ==
    IF m = 2 THEN (IF IsLeap(y) THEN 29 ELSE 28)
    ELSE IF m \in {4, 6, 9, 11} THEN 30 ELSE 31

DaysBeforeMonth(y, m) ==
    <<0, 31, 59, 90, 120, 151, 181, 212, 243, 273, 304, 334>>[m]
    + (IF m > 2 /\ IsLeap(y) THEN 1 ELSE 0)

\* date(year, month, day)
Fecha(y, m, d) == DaysBeforeYear(y) + DaysBeforeMonth(y, m) + d

\* date.weekday(): Monday is 0, Sunday is 6
weekday(d) == (d + 6) % 7

\* date.year, for the years the model's dates can fall in
Anos == 2023 .. 2026
Year(d) == CHOOSE y \in Anos : Fecha(y, 1, 1) <= d /\ d < Fecha(y + 1, 1, 1)

MinutosDia == 24 * 60

\* datetime.combine(date, time)
Combine(d, hora, minuto) == d * MinutosDia + hora * 60 + minuto
DateOf(dt) == dt \div MinutosDia
HourOf(dt) == (dt % MinutosDia) \div 60

(***************************************************************************)
(* PORCENTAJES and HORAS_JORNADA (lines 10-19).                            *)
(***************************************************************************)
PORCENTAJES ==
    [c \in {"Hora extra diurna", "Hora extra nocturna",
            "Hora extra diurna en domingo o festivo",
            "Hora extra nocturna en domingo o festivo",
            "Hora ordinaria en domingo o festivo",
            "Recargo nocturno festivo"} |->
        CASE c = "Hora extra diurna" -> "25%"
          [] c = "Hora extra nocturna" -> "75%"
          [] c = "Hora extra diurna en domingo o festivo" -> "105%"
          [] c = "Hora extra nocturna en domingo o festivo" -> "155%"
          [] c = "Hora ordinaria en domingo o festivo" -> "80%"
          [] c = "Recargo nocturno festivo" -> "115%"]

HORAS_JORNADA == 8

(***************************************************************************)
(* convertir_hora (lines 22-61).                                           *)
(***************************************************************************)
Digitos == {"0", "1", "2", "3", "4", "5", "6", "7", "8", "9"}

DigitVal(c) ==
    CASE c = "0" -> 0 [] c = "1" -> 1 [] c = "2" -> 2 [] c = "3" -> 3
      [] c = "4" -> 4 [] c = "5" -> 5 [] c = "6" -> 6 [] c = "7" -> 7
      [] c = "8" -> 8 [] c = "9" -> 9

AllDigits(s) == \A k \in 1 .. Len(s) : s[k] \in Digitos

\* int() of a string of one or two digits
IntOf(s) == IF Len(s) = 1 THEN DigitVal(s[1])
            ELSE 10 * DigitVal(s[1]) + DigitVal(s[2])

\* f'{num}': the decimal digits of a number below 100
StrOf(n) ==
    LET D == <<"0", "1", "2", "3", "4", "5", "6", "7", "8", "9">>
    IN  IF n < 10 THEN <<D[n + 1]>> ELSE <<D[(n \div 10) + 1], D[(n % 10) + 1]>>

LowerChar(c) == CASE c = "A" -> "a" [] c = "P" -> "p" [] c = "M" -> "m"
                  [] OTHER -> c
UpperChar(c) == CASE c = "a" -> "A" [] c = "p" -> "P" [] c = "m" -> "M"
                  [] OTHER -> c
Lower(s) == [k \in 1 .. Len(s) |-> LowerChar(s[k])]
Upper(s) == [k \in 1 .. Len(s) |-> UpperChar(s[k])]

\* str.strip()
RECURSIVE LStrip(_)
LStrip(s) == IF s # <<>> /\ Head(s) = " " THEN LStrip(Tail(s)) ELSE s
RECURSIVE RStrip(_)
RStrip(s) == IF s # <<>> /\ s[Len(s)] = " "
             THEN RStrip(SubSeq(s, 1, Len(s) - 1)) ELSE s
Strip(s) == RStrip(LStrip(s))

IsPrefix(p, s) == Len(p) <= Len(s) /\ SubSeq(s, 1, Len(p)) = p

\* str.replace(old, new)
RECURSIVE Replace(_, _, _)
Replace(s, old, new) ==
    IF s = <<>> THEN <<>>
    ELSE IF IsPrefix(old, s)
         THEN new \o Replace(SubSeq(s, Len(old) + 1, Len(s)), old, new)
         ELSE <<Head(s)>> \o Replace(Tail(s), old, new)

\* The value of an empty spreadsheet cell (pd.isna is true of it)
NaN == <<"NaN">>

HoraError == [ok |-> FALSE, hour |-> 0, minute |-> 0]
HoraOk(h, m) == [ok |-> TRUE, hour |-> h, minute |-> m]

\* lines 34-38: strip, lower, drop spaces and periods, a.m/p.m -> am/pm
Normalizar(hora) ==
    LET s1 == Lower(Strip(hora))
        s2 == SelectSeq(s1, LAMBDA c : c \notin {" ", "."})
    IN  Replace(Replace(s2, <<"a", ".", "m">>, <<"a", "m">>),
                <<"p", ".", "m">>, <<"p", "m">>)

EsAmPm(s) == s = <<"a", "m">> \/ s = <<"p", "m">>

Ultimos2(s) == SubSeq(s, Len(s) - 1, Len(s))
SinUltimos2(s) == SubSeq(s, 1, Len(s) - 2)

\* re.match(r'^\d{1,2}(am|pm)$', s)
MatchNumAmPm(s) ==
    /\ Len(s) \in {3, 4}
    /\ AllDigits(SinUltimos2(s))
    /\ EsAmPm(Ultimos2(s))

\* re.match(r'^\d{2}(am|pm)$', s)
Match2DigAmPm(s) ==
    /\ Len(s) = 4
    /\ AllDigits(SinUltimos2(s))
    /\ EsAmPm(Ultimos2(s))

\* re.match(r'^\d{1,2}$', s)
MatchNum(s) == Len(s) \in {1, 2} /\ AllDigits(s)

\* lines 41-42
AgregarMinutos(s) ==
    IF MatchNumAmPm(s) THEN SinUltimos2(s) \o <<":", "0", "0">> \o Ultimos2(s)
    ELSE s

\* lines 45-48
Corregir24h(s) ==
    IF Match2DigAmPm(s) /\ IntOf(SinUltimos2(s)) > 12
    THEN StrOf(IntOf(SinUltimos2(s))) \o <<":", "0", "0">>
    ELSE s

\* lines 51-52
SoloNumero(s) == IF MatchNum(s) THEN s \o <<":", "0", "0">> ELSE s

\* strptime directives, as the regular expressions of _strptime:
\* %I (1[0-2]|0[1-9]|[1-9])   %H (2[0-3]|[0-1]\d|\d)   %M ([0-5]\d|\d)
EsI(h) == /\ Len(h) \in {1, 2} /\ AllDigits(h)
          /\ IF Len(h) = 2 THEN IntOf(h) \in 1 .. 12 ELSE IntOf(h) \in 1 .. 9
EsH(h) == Len(h) \in {1, 2} /\ AllDigits(h) /\ IntOf(h) \in 0 .. 23
EsM(m) == Len(m) \in {1, 2} /\ AllDigits(m) /\ IntOf(m) \in 0 .. 59

\* the index of the first ':' of s, 0 when there is none
PosColon(s) ==
    IF \E k \in 1 .. Len(s) : s[k] = ":"
    THEN CHOOSE k \in 1 .. Len(s) :
            s[k] = ":" /\ \A j \in 1 .. (k - 1) : s[j] # ":"
    ELSE 0

\* datetime.strptime(s, '%I:%M%p'): the whole string must be consumed
Strptime12(s) ==
    LET k == PosColon(s)
        h == SubSeq(s, 1, k - 1)
        m == SubSeq(s, k + 1, Len(s) - 2)
        p == Ultimos2(s)
    IN  IF k > 0 /\ Len(s) >= k + 3 /\ EsI(h) /\ EsM(m)
           /\ (p = <<"A", "M">> \/ p = <<"P", "M">>)
        THEN HoraOk(IF p = <<"A", "M">>
                    THEN (IF IntOf(h) = 12 THEN 0 ELSE IntOf(h))
                    ELSE (IF IntOf(h) = 12 THEN 12 ELSE IntOf(h) + 12),
                    IntOf(m))
        ELSE HoraError

\* datetime.strptime(s, '%H:%M')
Strptime24(s) ==
    LET k == PosColon(s)
        h == SubSeq(s, 1, k - 1)
        m == SubSeq(s, k + 1, Len(s))
    IN  IF k > 0 /\ EsH(h) /\ EsM(m) THEN HoraOk(IntOf(h), IntOf(m))
        ELSE HoraError

\* lines 55-61: the formats in order, ValueError when none parses
Parsear(s) ==
    IF Strptime12(Upper(s)).ok THEN Strptime12(Upper(s))
    ELSE Strptime24(Upper(s))

convertir_hora(hora) ==
    IF hora = NaN THEN HoraError
    ELSE Parsear(SoloNumero(Corregir24h(AgregarMinutos(Normalizar(hora)))))

(***************************************************************************)
(* Festivos (Colombia), lines 107-164.                                     *)
(***************************************************************************)
next_monday(d) == d + ((7 - weekday(d)) % 7)

easter_sunday(year) ==
    LET a == year % 19
        b == year \div 100
        c == year % 100
        d == b \div 4
        e == b % 4
        f == (b + 8) \div 25
        g == (b - f + 1) \div 3
        h == (19 * a + b - d - g + 15) % 30
        ii == c \div 4
        k == c % 4
        l == (32 + 2 * e + 2 * ii - h - k) % 7
        m == (a + 11 * h + 22 * l) \div 451
        month == (h + l - 7 * m + 114) \div 31
        day == ((h + l - 7 * m + 114) % 31) + 1
    IN  Fecha(year, month, day)

\* the body of festivos_colombia (lines 130-157)
festivos_del_ano(year) ==
    LET easter == easter_sunday(year)
    IN  {Fecha(year, 1, 1), Fecha(year, 5, 1), Fecha(year, 7, 20),
         Fecha(year, 8, 7), Fecha(year, 12, 8), Fecha(year, 12, 25)}
        \cup {easter - 3, easter - 2}
        \cup {next_monday(Fecha(year, 1, 6)), next_monday(Fecha(year, 3, 19)),
              next_monday(Fecha(year, 6, 29)), next_monday(Fecha(year, 8, 15)),
              next_monday(Fecha(year, 10, 12)), next_monday(Fecha(year, 11, 1)),
              next_monday(Fecha(year, 11, 11))}
        \cup {next_monday(easter + 43), next_monday(easter + 60),
              next_monday(easter + 68)}

\* @lru_cache(maxsize=None), line 128: the holidays of a year are computed once
festivos_cache == [y \in Anos |-> festivos_del_ano(y)]

festivos_colombia(year) == festivos_cache[year]

\* col_fechas is the sequence of (valid) dates of the FECHA column
construir_calendario_festivos(col_fechas) ==
    UNION {festivos_colombia(y) :
             y \in {Year(col_fechas[k]) : k \in 1 .. Len(col_fechas)}}

(***************************************************************************)
(* dividir_por_dia (lines 63-82) and segmentar_por_franja (lines 84-104).  *)
(***************************************************************************)
\* combinar_fecha_hora(fecha, hora_dt): the date with the time of day of hora_dt
combinar_fecha_hora(fecha, hora_dt) == Combine(fecha, hora_dt.hour, hora_dt.minute)

\* the while loop of lines 75-79, from actual, appending to acc
RECURSIVE CortarDias(_, _, _)
CortarDias(actual, fin, acc) ==
    IF DateOf(actual) < DateOf(fin)
    THEN LET corte == Combine(DateOf(actual), 23, 59) + 1
         IN  CortarDias(corte, fin,
                        Append(acc, <<DateOf(actual), actual, corte>>))
    ELSE Append(acc, <<DateOf(fin), actual, fin>>)

dividir_por_dia(fecha, ini_time_dt, fin_time_dt) ==
    LET ini  == combinar_fecha_hora(fecha, ini_time_dt)
        fin0 == combinar_fecha_hora(fecha, fin_time_dt)
        fin  == IF fin0 <= ini THEN fin0 + MinutosDia ELSE fin0
    IN  CortarDias(ini, fin, <<>>)

\* line 102: the period of the segment, from the hour of its midpoint
TipoDe(s, e) ==
    LET mid == s + ((e - s) \div 2)
    IN  IF 6 <= HourOf(mid) /\ HourOf(mid) < 21 THEN "diurna" ELSE "nocturna"

segmentar_por_franja(ini_dt, fin_dt0) ==
    LET fin_dt == IF fin_dt0 <= ini_dt THEN fin_dt0 + MinutosDia ELSE fin_dt0
        bases  == <<DateOf(ini_dt), DateOf(ini_dt + MinutosDia)>>
        cortes == <<Combine(bases[1], 6, 0), Combine(bases[1], 21, 0),
                    Combine(bases[2], 6, 0), Combine(bases[2], 21, 0)>>
        puntos0 == <<ini_dt, fin_dt>>
                   \o SelectSeq(cortes, LAMBDA c : ini_dt < c /\ c < fin_dt)
        puntos == SortByKeys(puntos0, puntos0)
    IN  [k \in 1 .. (Len(puntos) - 1) |->
            [dur   |-> puntos[k + 1] - puntos[k],
             tipo  |-> TipoDe(puntos[k], puntos[k + 1]),
             dia   |-> DateOf(puntos[k]),
             start |-> puntos[k]]]

(***************************************************************************)
(* Specification SpecHora: convertir_hora applied to one raw cell value.   *)
(***************************************************************************)
HoraDigitos == {<<"0">>, <<"1">>, <<"8">>, <<"0", "8">>, <<"1", "2">>,
                <<"1", "3">>, <<"1", "6">>, <<"2", "3">>, <<"2", "4">>}
HoraMinutos == {<<>>, <<":", "0", "0">>, <<":", "3", "0">>, <<":", "5">>,
                <<":", "6", "0">>}
HoraSufijos == {<<>>, <<"a", "m">>, <<"p", "m">>, <<" ", "P", "M">>,
                <<"a", ".", "m", ".">>, <<"x">>}
HorasCrudas ==
    {h \o m \o s : h \in HoraDigitos, m \in HoraMinutos, s \in HoraSufijos}
    \cup {NaN, <<>>}

PxIdle ==
    /\ df = <<>> /\ pc = "idle" /\ informe = <<>> /\ error = <<>>
    /\ festivos_set = {} /\ grupos = <<>> /\ grupo = <<>>
    /\ segmentos_turno = <<>> /\ i = 0
    /\ horas_ordinarias_restantes_por_dia = <<>>
    /\ conceptos = <<>> /\ resumen = <<>> /\ traza = <<>>

SegIdle ==
    /\ seg_in = <<>> /\ bloques = <<>> /\ seg_i = 0 /\ seg_bloque = <<>>
    /\ seg_pc = "idle"

HoraIdle == hora_str = <<>> /\ hora_res = HoraError /\ hora_pc = "idle"

InitHora ==
    /\ hora_str \in HorasCrudas
    /\ hora_res = HoraError
    /\ hora_pc = "pendiente"
    /\ SegIdle /\ PxIdle

Convertir ==
    /\ hora_pc = "pendiente"
    /\ hora_res' = convertir_hora(hora_str)
    /\ hora_pc' = "convertida"
    /\ UNCHANGED <<hora_str, varsSeg, varsPx>>

NextHora == Convertir

SpecHora == InitHora /\ [][NextHora]_vars

(***************************************************************************)
(* Specification SpecSeg: dividir_por_dia, then segmentar_por_franja on    *)
(* each day block, for one entry (fecha, ini, fin).  The times are taken   *)
(* within Margen minutes of midnight, 06:00 and 21:00, plus noon.          *)
(***************************************************************************)
Margen == 1

MinutosSeg ==
    (0 .. Margen) \cup ((MinutosDia - Margen) .. (MinutosDia - 1))
    \cup ((6 * 60 - Margen) .. (6 * 60 + Margen))
    \cup ((21 * 60 - Margen) .. (21 * 60 + Margen))
    \cup {12 * 60}

HorasSeg == {HoraOk(m \div 60, m % 60) : m \in MinutosSeg}

FechasSeg == {Fecha(2024, 3, 2), Fecha(2024, 12, 31)}

InitSeg ==
    /\ seg_in \in [fecha : FechasSeg, ini : HorasSeg, fin : HorasSeg]
    /\ bloques = <<>> /\ seg_i = 0 /\ seg_bloque = <<>>
    /\ seg_pc = "dividir"
    /\ HoraIdle /\ PxIdle

\* line 196
SegDividir ==
    /\ seg_pc = "dividir"
    /\ bloques' = dividir_por_dia(seg_in.fecha, seg_in.ini, seg_in.fin)
    /\ seg_i' = 1
    /\ seg_pc' = "segmentar"
    /\ UNCHANGED <<seg_in, seg_bloque, varsHora, varsPx>>

\* lines 197-198, one day block
SegSegmentar ==
    /\ seg_pc = "segmentar"
    /\ seg_i <= Len(bloques)
    /\ seg_bloque' = Append(seg_bloque,
                            segmentar_por_franja(bloques[seg_i][2],
                                                 bloques[seg_i][3]))
    /\ seg_i' = seg_i + 1
    /\ seg_pc' = IF seg_i = Len(bloques) THEN "fin" ELSE "segmentar"
    /\ UNCHANGED <<seg_in, bloques, varsHora, varsPx>>

NextSeg == SegDividir \/ SegSegmentar

SpecSeg == InitSeg /\ [][NextSeg]_vars

(***************************************************************************)
(* procesar_excel (lines 167-246): pure parts.                             *)
(***************************************************************************)
\* pd.to_datetime(..., dayfirst=True, errors='coerce') of a raw dd/mm/aaaa
\* value <<dd, mm, aaaa>>: the date, or NaT when it is no calendar date
NaT == 0

to_datetime(cruda) ==
    LET dd == cruda[1]
        mm == cruda[2]
        aaaa == cruda[3]
    IN  IF mm \in 1 .. 12 /\ dd >= 1 /\ dd <= DaysInMonth(aaaa, mm)
        THEN Fecha(aaaa, mm, dd)
        ELSE NaT

\* df['FECHA'] after line 171
ColFechas(d) == [k \in 1 .. Len(d) |-> to_datetime(d[k].FECHA)]

\* the positions 1..Len(d) of the rows of d, in order
Posiciones(d) == [k \in 1 .. Len(d) |-> k]

\* FechasInvalidas with .all() in place of .any(): the rows are reported only
\* when no row has a date
FechasInvalidasTodas(d) ==
    IF \A k \in 1 .. Len(d) : to_datetime(d[k].FECHA) = NaT
    THEN Posiciones(d) ELSE <<>>

\* lines 172-173, df[df['FECHA'].isna()]: the positions of the rows with no date
FechasInvalidas(d) ==
    SelectSeq(Posiciones(d), LAMBDA k : to_datetime(d[k].FECHA) = NaT)

\* the value of column col ('INICIAL' or 'FINAL') of a row
Celda(fila, col) == IF col = "INICIAL" THEN fila.INICIAL ELSE fila.FINAL

\* lines 180-181, df[col].apply(convertir_hora): the positions, in order, of the
\* rows whose column col convertir_hora rejects (apply raises at the first)
HorasInvalidas(d, col) ==
    SelectSeq(Posiciones(d), LAMBDA k : ~convertir_hora(Celda(d[k], col)).ok)

\* str(e) of the ValueError convertir_hora raises (lines 32 and 61), without
\* the quoted raw value, which the record carries as VALOR
MensajeHora(val) ==
    IF val = NaN THEN "Valor de hora vacio o nulo"
    ELSE "Formato de hora invalido"

\* the time of day as minutes: the order of the INI_DT column
MinutoDe(hora_dt) == hora_dt.hour * 60 + hora_dt.minute

\* Python's order of the employee names and of the concept names
Nombres == {"Ana", "Eva"}
RangoNombre(n) == IF n = "Ana" THEN 1 ELSE 2
RangoConcepto(c) ==
    CASE c = "Hora extra diurna" -> 1
      [] c = "Hora extra diurna en domingo o festivo" -> 2
      [] c = "Hora extra nocturna" -> 3
      [] c = "Hora extra nocturna en domingo o festivo" -> 4
      [] c = "Hora ordinaria en domingo o festivo" -> 5
      [] c = "Recargo nocturno festivo" -> 6
      [] OTHER -> 7

\* the keys of a groupby in sorted order: key(x) is <<rank, integer>>
LexMenor(a, b) == a[1] < b[1] \/ (a[1] = b[1] /\ a[2] < b[2])

\* df.groupby(['NOMBRE', 'FECHA']): the keys <<nombre, fecha>>, sorted
RECURSIVE OrdenarGrupos(_)
OrdenarGrupos(S) ==
    IF S = {} THEN <<>>
    ELSE LET m == CHOOSE x \in S : \A y \in S \ {x} :
                      LexMenor(<<RangoNombre(x[1]), x[2]>>,
                               <<RangoNombre(y[1]), y[2]>>)
         IN  <<m>> \o OrdenarGrupos(S \ {m})

GruposDe(d) ==
    OrdenarGrupos({<<d[k].NOMBRE, to_datetime(d[k].FECHA)>> : k \in 1 .. Len(d)})

\* lines 196-198 for one row
SegmentosDeFila(fecha, fila) ==
    LET bl == dividir_por_dia(fecha, convertir_hora(fila.INICIAL),
                              convertir_hora(fila.FINAL))
    IN  Concat([b \in 1 .. Len(bl) |-> segmentar_por_franja(bl[b][2], bl[b][3])])

\* OrdenarPorInicio without the sort of line 200: the segments in row order
SinOrdenarPorInicio(segs) == segs

\* line 200: segmentos_turno.sort(key=lambda seg: seg['start'])
OrdenarPorInicio(segs) ==
    SortByKeys(segs, [k \in 1 .. Len(segs) |-> segs[k].start])

\* lines 192-200: the sorted segments of the group of key clave
SegmentosDeGrupo(d, clave) ==
    LET filas == SelectSeq(d, LAMBDA f : f.NOMBRE = clave[1]
                                         /\ to_datetime(f.FECHA) = clave[2])
        grupo_ord == SortByKeys(filas,
                        [k \in 1 .. Len(filas) |->
                            MinutoDe(convertir_hora(filas[k].INICIAL))])
    IN  OrdenarPorInicio(
            Concat([k \in 1 .. Len(grupo_ord) |->
                        SegmentosDeFila(clave[2], grupo_ord[k])]))

\* lines 186-188
add_concepto(lista, nombre, concepto_base, horas) ==
    IF horas > 0 THEN Append(lista, <<nombre, concepto_base, horas>>)
    ELSE lista

\* lines 208-210
EsFestivoODomingo(dia_real, festivos) ==
    weekday(dia_real) = 6 \/ dia_real \in festivos

\* line 213-216: the budget left for dia_real, in minutes
Restante(restantes, dia_real) ==
    IF dia_real \in DOMAIN restantes THEN restantes[dia_real]
    ELSE HORAS_JORNADA * 60

\* line 217
Ordinaria(restante, dur) == Min2(restante, dur)

\* lines 203-237 for one segment: the emissions appended to lista and the
\* budgets afterwards
ClasificarSegmento(nombre, seg, festivos, restantes, lista) ==
    LET dur == seg.dur
        tipo == seg.tipo
        dia_real == seg.dia
    IN  IF EsFestivoODomingo(dia_real, festivos)
        THEN LET restante == Restante(restantes, dia_real)
                 ordinaria == Ordinaria(restante, dur)
                 extra == Max2(0, dur - ordinaria)
                 l1 == IF tipo = "diurna"
                       THEN add_concepto(lista, nombre,
                               "Hora ordinaria en domingo o festivo", ordinaria)
                       ELSE add_concepto(lista, nombre,
                               "Recargo nocturno festivo", ordinaria)
                 l2 == IF tipo = "diurna"
                       THEN add_concepto(l1, nombre,
                               "Hora extra diurna en domingo o festivo", extra)
                       ELSE add_concepto(l1, nombre,
                               "Hora extra nocturna en domingo o festivo", extra)
             IN  [conceptos |-> l2,
                  restantes |->
                      [d \in DOMAIN restantes \cup {dia_real} |->
                          IF d = dia_real THEN Max2(0, restante - ordinaria)
                          ELSE restantes[d]]]
        ELSE [conceptos |->
                  IF tipo = "diurna"
                  THEN add_concepto(lista, nombre, "Hora extra diurna", dur)
                  ELSE add_concepto(lista, nombre, "Hora extra nocturna", dur),
              restantes |-> restantes]

\* lines 243: groupby(['NOMBRE', 'CONCEPTO_BASE'])['HORAS'].sum(), one key
SumaHoras(lista, clave) ==
    SumSeq([k \in 1 .. Len(lista) |->
               IF <<lista[k][1], lista[k][2]>> = clave THEN lista[k][3] ELSE 0])

RECURSIVE OrdenarConceptos(_)
OrdenarConceptos(S) ==
    IF S = {} THEN <<>>
    ELSE LET m == CHOOSE x \in S : \A y \in S \ {x} :
                      LexMenor(<<RangoNombre(x[1]), RangoConcepto(x[2])>>,
                               <<RangoNombre(y[1]), RangoConcepto(y[2])>>)
         IN  <<m>> \o OrdenarConceptos(S \ {m})

\* lines 239-246: the summary rows (NOMBRE, CONCEPTO, HORAS)
Resumir(lista) ==
    LET claves == OrdenarConceptos({<<lista[k][1], lista[k][2]>> :
                                      k \in 1 .. Len(lista)})
    IN  [k \in 1 .. Len(claves) |->
            [NOMBRE   |-> claves[k][1],
             CONCEPTO |-> claves[k][2] \o " (" \o PORCENTAJES[claves[k][2]] \o ")",
             HORAS    |-> SumaHoras(lista, claves[k])]]

\* procesar_excel from line 183 on, as a function of a valid df: the loop over
\* the segments of one group, from position k, then the loop over the groups
RECURSIVE ClasificarDesde(_, _, _, _, _, _)
ClasificarDesde(nombre, segs, k, festivos, restantes, lista) ==
    IF k > Len(segs) THEN lista
    ELSE LET r == ClasificarSegmento(nombre, segs[k], festivos, restantes, lista)
         IN  ClasificarDesde(nombre, segs, k + 1, festivos, r.restantes,
                             r.conceptos)

RECURSIVE ConceptosDeGrupos(_, _, _, _)
ConceptosDeGrupos(d, claves, festivos, lista) ==
    IF claves = <<>> THEN lista
    ELSE ConceptosDeGrupos(d, Tail(claves), festivos,
            ClasificarDesde(Head(claves)[1], SegmentosDeGrupo(d, Head(claves)),
                            1, festivos, <<>>, lista))

ProcesarExcel(d) ==
    Resumir(ConceptosDeGrupos(d, GruposDe(d),
                              construir_calendario_festivos(ColFechas(d)), <<>>))

(***************************************************************************)
(* Helpers de validacion para la interfaz (lines 249-297).                 *)
(***************************************************************************)
\* encontrar_invalidos leaving its loop at the first value it cannot convert
encontrar_primer_invalido(d, etiqueta_col) ==
    LET inv == HorasInvalidas(d, etiqueta_col)
    IN  [j \in 1 .. Min2(1, Len(inv)) |->
            [FILA_DF |-> inv[j] - 1,
             COLUMNA |-> etiqueta_col,
             VALOR   |-> Celda(d[inv[j]], etiqueta_col),
             ERROR   |-> MensajeHora(Celda(d[inv[j]], etiqueta_col))]]

\* lines 249-260
encontrar_invalidos(d, etiqueta_col) ==
    LET inv == HorasInvalidas(d, etiqueta_col)
    IN  [j \in 1 .. Len(inv) |->
            [FILA_DF |-> inv[j] - 1,
             COLUMNA |-> etiqueta_col,
             VALOR   |-> Celda(d[inv[j]], etiqueta_col),
             ERROR   |-> MensajeHora(Celda(d[inv[j]], etiqueta_col))]]

\* lines 282-283, df[fechas.isna()]: the rows shown by st.dataframe, each as its
\* index and its raw date
invalidas_fechas(d) ==
    LET inv == SelectSeq(Posiciones(d), LAMBDA k : to_datetime(d[k].FECHA) = NaT)
    IN  [j \in 1 .. Len(inv) |->
            [FILA_DF |-> inv[j] - 1,
             COLUMNA |-> "FECHA",
             VALOR   |-> d[inv[j]].FECHA,
             ERROR   |-> "FECHA invalida"]]

(***************************************************************************)
(* Specification Spec: one run over an uploaded sheet.  The run starts in  *)
(* the Streamlit flow (pc = "ui_fechas") or in procesar_excel called on    *)
(* the raw sheet (pc = "px_fechas").                                       *)
(***************************************************************************)
MaxFilas == 2

FechasCrudas == {<<2, 3, 2024>>, <<3, 3, 2024>>, <<31, 12, 2024>>,
                 <<1, 1, 2025>>}
FechaCrudaInvalida == <<30, 2, 2024>>

H10pm == <<"1", "0", "p", "m">>
H6am  == <<"6", "a", "m">>
H4pm  == <<"4", "p", "m">>
H16pm == <<"1", "6", "p", "m">>

Turnos == {<<H10pm, H6am>>, <<H10pm, H4pm>>, <<H4pm, H10pm>>}

Fila(n, f, ini, fin) == [NOMBRE |-> n, FECHA |-> f, INICIAL |-> ini, FINAL |-> fin]

Filas ==
    {Fila(n, f, t[1], t[2]) : n \in Nombres, f \in FechasCrudas, t \in Turnos}
    \cup {Fila("Ana", FechaCrudaInvalida, H10pm, H6am),
          Fila("Eva", FechaCrudaInvalida, H16pm, H6am),
          Fila("Ana", <<2, 3, 2024>>, H16pm, H6am),
          Fila("Eva", <<3, 3, 2024>>, H4pm, NaN)}

Init ==
    /\ df \in UNION {[1 .. n -> Filas] : n \in 0 .. MaxFilas}
    /\ pc \in {"ui_fechas", "px_fechas"}
    /\ informe = <<>> /\ error = <<>>
    /\ festivos_set = {} /\ grupos = <<>> /\ grupo = <<>>
    /\ segmentos_turno = <<>> /\ i = 0
    /\ horas_ordinarias_restantes_por_dia = <<>>
    /\ conceptos = <<>> /\ resumen = <<>> /\ traza = <<>>
    /\ HoraIdle /\ SegIdle

\* lines 281-287: st.error, st.dataframe(invalidas_fechas), st.stop()
UiValidarFechas ==
    /\ pc = "ui_fechas"
    /\ IF invalidas_fechas(df) # <<>>
       THEN informe' = invalidas_fechas(df) /\ pc' = "stop"
       ELSE informe' = informe /\ pc' = "ui_horas"
    /\ UNCHANGED <<df, error, festivos_set, grupos, grupo, segmentos_turno, i,
                   horas_ordinarias_restantes_por_dia, conceptos, resumen,
                   traza, varsHora, varsSeg>>

\* lines 289-300: inv_total, st.dataframe(inv_total), st.stop(); else the call
\* of procesar_excel
UiValidarHoras ==
    /\ pc = "ui_horas"
    /\ LET inv_total == encontrar_invalidos(df, "INICIAL")
                        \o encontrar_invalidos(df, "FINAL")
       IN  IF inv_total # <<>>
           THEN informe' = inv_total /\ pc' = "stop"
           ELSE informe' = informe /\ pc' = "px_fechas"
    /\ UNCHANGED <<df, error, festivos_set, grupos, grupo, segmentos_turno, i,
                   horas_ordinarias_restantes_por_dia, conceptos, resumen,
                   traza, varsHora, varsSeg>>

\* lines 171-177: raise ValueError with the number of rows of invalid date
PxFechas ==
    /\ pc = "px_fechas"
    /\ IF FechasInvalidas(df) # <<>>
       THEN /\ error' = [tipo |-> "fechas", filas |-> Len(FechasInvalidas(df))]
            /\ pc' = "error"
       ELSE error' = error /\ pc' = "px_horas"
    /\ UNCHANGED <<df, informe, festivos_set, grupos, grupo, segmentos_turno, i,
                   horas_ordinarias_restantes_por_dia, conceptos, resumen,
                   traza, varsHora, varsSeg>>

\* lines 180-181: the ValueError of the first value convertir_hora rejects,
\* column INICIAL before column FINAL
PxHoras ==
    /\ pc = "px_horas"
    /\ LET ini == HorasInvalidas(df, "INICIAL")
           fin == HorasInvalidas(df, "FINAL")
       IN  IF ini # <<>>
           THEN /\ error' = [tipo |-> "hora", columna |-> "INICIAL",
                             valor |-> df[ini[1]].INICIAL]
                /\ pc' = "error"
           ELSE IF fin # <<>>
           THEN /\ error' = [tipo |-> "hora", columna |-> "FINAL",
                             valor |-> df[fin[1]].FINAL]
                /\ pc' = "error"
           ELSE error' = error /\ pc' = "px_calendario"
    /\ UNCHANGED <<df, informe, festivos_set, grupos, grupo, segmentos_turno, i,
                   horas_ordinarias_restantes_por_dia, conceptos, resumen,
                   traza, varsHora, varsSeg>>

\* lines 183-191: the calendar, the empty list of emissions, the groups
PxCalendario ==
    /\ pc = "px_calendario"
    /\ festivos_set' = construir_calendario_festivos(ColFechas(df))
    /\ conceptos' = <<>>
    /\ grupos' = GruposDe(df)
    /\ pc' = "px_grupo"
    /\ UNCHANGED <<df, informe, error, grupo, segmentos_turno, i,
                   horas_ordinarias_restantes_por_dia, resumen, traza,
                   varsHora, varsSeg>>

\* lines 191-201: the next group, its sorted segments, a fresh budget mapping
PxGrupo ==
    /\ pc = "px_grupo"
    /\ grupos # <<>>
    /\ grupo' = Head(grupos)
    /\ grupos' = Tail(grupos)
    /\ segmentos_turno' = SegmentosDeGrupo(df, Head(grupos))
    /\ horas_ordinarias_restantes_por_dia' = <<>>
    /\ i' = 1
    /\ pc' = "px_seg"
    /\ UNCHANGED <<df, informe, error, festivos_set, conceptos, resumen, traza,
                   varsHora, varsSeg>>

\* what conceptos gained in one step, by concept
Emitido(antes, despues, cs) ==
    SumSeq([k \in 1 .. Len(despues) |->
               IF k > Len(antes) /\ despues[k][2] \in cs THEN despues[k][3]
               ELSE 0])

ConceptosOrdinarios ==
    {"Hora ordinaria en domingo o festivo", "Recargo nocturno festivo"}
ConceptosExtraFestivo ==
    {"Hora extra diurna en domingo o festivo",
     "Hora extra nocturna en domingo o festivo"}
ConceptosExtra == {"Hora extra diurna", "Hora extra nocturna"}

\* lines 203-237: one segment of the group.  traza records what the step did
\* with the segment (it is not a variable of the program).
PxSegmento ==
    /\ pc = "px_seg"
    /\ i <= Len(segmentos_turno)
    /\ LET seg == segmentos_turno[i]
           r == ClasificarSegmento(grupo[1], seg, festivos_set,
                                   horas_ordinarias_restantes_por_dia, conceptos)
       IN  /\ conceptos' = r.conceptos
           /\ horas_ordinarias_restantes_por_dia' = r.restantes
           /\ traza' = Append(traza,
                  [nombre |-> grupo[1], fecha |-> grupo[2], seg |-> seg,
                   antes |-> horas_ordinarias_restantes_por_dia,
                   despues |-> r.restantes,
                   ordinaria |-> Emitido(conceptos, r.conceptos,
                                         ConceptosOrdinarios),
                   extra_festivo |-> Emitido(conceptos, r.conceptos,
                                             ConceptosExtraFestivo),
                   extra |-> Emitido(conceptos, r.conceptos, ConceptosExtra)])
    /\ i' = i + 1
    /\ pc' = IF i = Len(segmentos_turno) THEN "px_grupo" ELSE "px_seg"
    /\ UNCHANGED <<df, informe, error, festivos_set, grupos, grupo,
                   segmentos_turno, resumen, varsHora, varsSeg>>

\* lines 239-246, after the last group
PxResumen ==
    /\ pc = "px_grupo"
    /\ grupos = <<>>
    /\ resumen' = Resumir(conceptos)
    /\ pc' = "done"
    /\ UNCHANGED <<df, informe, error, festivos_set, grupos, grupo,
                   segmentos_turno, i, horas_ordinarias_restantes_por_dia,
                   conceptos, traza, varsHora, varsSeg>>

Next ==
    \/ UiValidarFechas
    \/ UiValidarHoras
    \/ PxFechas
    \/ PxHoras
    \/ PxCalendario
    \/ PxGrupo
    \/ PxSegmento
    \/ PxResumen

Spec == Init /\ [][Next]_vars

(***************************************************************************)
(* Properties of convertir_hora (SpecHora).                                *)
(***************************************************************************)
\* C3: a bare two-digit hour 13..23 followed directly by am or pm is accepted
\* and converted to the 24-hour time HH:00, the suffix being ignored.
C3_DosDigitosMayorQue12 ==
    (/\ hora_pc = "convertida"
     /\ hora_str # NaN
     /\ Len(hora_str) = 4
     /\ AllDigits(SubSeq(hora_str, 1, 2))
     /\ IntOf(SubSeq(hora_str, 1, 2)) \in 13 .. 23
     /\ SubSeq(hora_str, 3, 4) \in {<<"a", "m">>, <<"p", "m">>})
    => hora_res = HoraOk(IntOf(SubSeq(hora_str, 1, 2)), 0)

(***************************************************************************)
(* Properties of the segmenter (SpecSeg).                                  *)
(***************************************************************************)
DurDe(segs) == SumSeq([k \in 1 .. Len(segs) |-> segs[k].dur])

\* the instants of the entry as the claim defines them
InicioEntrada == seg_in.fecha * MinutosDia + MinutoDe(seg_in.ini)
FinEntrada ==
    IF MinutoDe(seg_in.fin) <= MinutoDe(seg_in.ini)
    THEN (seg_in.fecha + 1) * MinutosDia + MinutoDe(seg_in.fin)
    ELSE seg_in.fecha * MinutosDia + MinutoDe(seg_in.fin)

\* C2: the segments of an entry sum to end_instant - start_instant, and the
\* segments of each day block sum to the duration of the block.
C2_SinGanarNiPerderHoras ==
    seg_pc = "fin" =>
        /\ DurDe(Concat(seg_bloque)) = FinEntrada - InicioEntrada
        /\ \A b \in 1 .. Len(bloques) :
              DurDe(seg_bloque[b]) = bloques[b][3] - bloques[b][2]

\* the 06:00 and 21:00 instants strictly between s and e
LineasDentro(s, e) ==
    {c \in {Combine(d, 6, 0) : d \in DateOf(s) .. DateOf(e)}
           \cup {Combine(d, 21, 0) : d \in DateOf(s) .. DateOf(e)} :
        s < c /\ c < e}

EsDiurno(instante) == 6 <= HourOf(instante) /\ HourOf(instante) < 21

\* C9: no segment of a day block straddles 06:00 or 21:00, its kind is the kind
\* of each of its instants, and the segments are contiguous and ordered from
\* the start of the block to its end.
C9_SinCruzarFranja ==
    \A b \in 1 .. Len(seg_bloque) :
        LET segs == seg_bloque[b]
            FinDe(k) == segs[k].start + segs[k].dur
        IN  /\ segs # <<>>
            /\ segs[1].start = bloques[b][2]
            /\ FinDe(Len(segs)) = bloques[b][3]
            /\ \A k \in 1 .. (Len(segs) - 1) : FinDe(k) = segs[k + 1].start
            /\ \A k \in 1 .. Len(segs) :
                  /\ segs[k].dur > 0
                  /\ LineasDentro(segs[k].start, FinDe(k)) = {}
                  /\ \A m \in segs[k].start .. (FinDe(k) - 1) :
                        (segs[k].tipo = "diurna") <=> EsDiurno(m)

(***************************************************************************)
(* Properties of a run (Spec).                                             *)
(***************************************************************************)
FilaInvalida(fila) ==
    \/ to_datetime(fila.FECHA) = NaT
    \/ ~convertir_hora(fila.INICIAL).ok
    \/ ~convertir_hora(fila.FINAL).ok

HayInvalido == \E k \in 1 .. Len(df) : FilaInvalida(df[k])

\* C4: with an invalid record in the batch the run never leaves validation: it
\* ends stopped or in error, and nothing is segmented, budgeted or emitted.
C4_TodoONada ==
    HayInvalido =>
        /\ pc \in {"ui_fechas", "ui_horas", "px_fechas", "px_horas", "stop",
                   "error"}
        /\ segmentos_turno = <<>>
        /\ DOMAIN horas_ordinarias_restantes_por_dia = {}
        /\ conceptos = <<>>
        /\ traza = <<>>
        /\ resumen = <<>>

C4_Testigo ==
    /\ pc = "error"
    /\ Len(df) = 2
    /\ ~FilaInvalida(df[1])
    /\ FilaInvalida(df[2])

\* the report holds the row of position k for column col with its raw value
EnInforme(k, col, val) ==
    \E j \in 1 .. Len(informe) :
        /\ informe[j].FILA_DF = k - 1
        /\ informe[j].COLUMNA = col
        /\ informe[j].VALOR = val

FechaMala(k) == to_datetime(df[k].FECHA) = NaT
HoraMala(k, col) == ~convertir_hora(Celda(df[k], col)).ok

OrdinariasDe(n, d) ==
    SumSeq([k \in 1 .. Len(traza) |->
               IF traza[k].nombre = n /\ traza[k].seg.dia = d
               THEN traza[k].ordinaria ELSE 0])
DuracionDe(n, d) ==
    SumSeq([k \in 1 .. Len(traza) |->
               IF traza[k].nombre = n /\ traza[k].seg.dia = d
               THEN traza[k].seg.dur ELSE 0])

DiasDeTraza == {traza[k].seg.dia : k \in 1 .. Len(traza)}

\* premium by the calendar of the run: Sunday, or a holiday of festivos_set
PremiumCalendario(d) == weekday(d) = 6 \/ d \in festivos_set
\* premium by the law: Sunday, or a holiday of the year of the date
PremiumReal(d) == weekday(d) = 6 \/ d \in festivos_colombia(Year(d))

\* C1: per employee and premium date, the ordinary hours emitted are
\* min(8h, hours of the employee's segments on that date), whatever the
\* declared dates of the entries the segments come from.
C1_PresupuestoPorDiaReal ==
    pc = "done" =>
        \A n \in Nombres : \A d \in DiasDeTraza :
            PremiumCalendario(d) =>
                /\ OrdinariasDe(n, d) <= HORAS_JORNADA * 60
                /\ OrdinariasDe(n, d)
                     = Min2(HORAS_JORNADA * 60, DuracionDe(n, d))

\* C6: a segment is premium by its own date.  Of an entry declared on a
\* non-premium date, the hours before midnight are plain overtime in full and
\* leave the budgets alone; the hours after midnight, on a Sunday or holiday,
\* take the premium path, the first of them with the whole 8h budget.  Eva's
\* shift of Saturday 2024-03-02, 10pm to 6am, gives 2h of night overtime and 6h
\* of ordinary premium night hours.
C6_PremiumPorDiaReal ==
    /\ \A k \in 1 .. Len(traza) :
          LET t == traza[k]
          IN  ~PremiumReal(t.fecha) =>
                 /\ (t.seg.dia = t.fecha) =>
                        /\ t.extra = t.seg.dur
                        /\ t.ordinaria = 0 /\ t.extra_festivo = 0
                        /\ t.despues = t.antes
                 /\ (t.seg.dia # t.fecha /\ PremiumReal(t.seg.dia)) =>
                        /\ t.extra = 0
                        /\ t.ordinaria + t.extra_festivo = t.seg.dur
                        /\ (t.seg.dia \notin DOMAIN t.antes) =>
                              t.ordinaria = Min2(HORAS_JORNADA * 60, t.seg.dur)
    /\ (pc = "done" /\ df = <<Fila("Eva", <<2, 3, 2024>>, H10pm, H6am)>>) =>
          resumen = <<[NOMBRE |-> "Eva", CONCEPTO |-> "Hora extra nocturna (75%)",
                       HORAS |-> 2 * 60],
                      [NOMBRE |-> "Eva",
                       CONCEPTO |-> "Recargo nocturno festivo (115%)",
                       HORAS |-> 6 * 60]>>

\* the budget of (employee, date) left by the steps before step k: what the
\* last earlier step on a segment of that employee and date left, else 8h
RECURSIVE RestanteAntes(_, _, _)
RestanteAntes(n, d, k) ==
    IF k <= 1 THEN HORAS_JORNADA * 60
    ELSE IF traza[k - 1].nombre = n /\ traza[k - 1].seg.dia = d
         THEN traza[k - 1].despues[d]
         ELSE RestanteAntes(n, d, k - 1)

\* C7: on a premium date the budget of (employee, date) is consumed in the
\* order of segment start: ordinary = min(remaining, d), extra = d - ordinary,
\* the remaining budget never grows nor goes below 0, and no segment gets
\* ordinary hours after an earlier one got premium overtime.
C7_PresupuestoCronologico ==
    \A k \in 1 .. Len(traza) :
        LET t == traza[k]
            rem == RestanteAntes(t.nombre, t.seg.dia, k)
        IN  PremiumCalendario(t.seg.dia) =>
               /\ t.ordinaria = Min2(rem, t.seg.dur)
               /\ t.extra_festivo = t.seg.dur - t.ordinaria
               /\ t.despues[t.seg.dia] <= rem
               /\ t.despues[t.seg.dia] >= 0
               /\ \A j \in 1 .. Len(traza) :
                     (/\ traza[j].nombre = t.nombre
                      /\ traza[j].seg.dia = t.seg.dia
                      /\ traza[j].seg.start < t.seg.start
                      /\ traza[j].extra_festivo > 0) => t.ordinaria = 0

\* the label of a concept, per the fixed table
Etiqueta(c) ==
    CASE c = "Hora extra diurna" -> "Hora extra diurna (25%)"
      [] c = "Hora extra nocturna" -> "Hora extra nocturna (75%)"
      [] c = "Hora extra diurna en domingo o festivo" ->
            "Hora extra diurna en domingo o festivo (105%)"
      [] c = "Hora extra nocturna en domingo o festivo" ->
            "Hora extra nocturna en domingo o festivo (155%)"
      [] c = "Hora ordinaria en domingo o festivo" ->
            "Hora ordinaria en domingo o festivo (80%)"
      [] c = "Recargo nocturno festivo" -> "Recargo nocturno festivo (115%)"
      [] OTHER -> "?"

Permutar(d, p) == [k \in 1 .. Len(d) |-> d[p[k]]]

\* C8: the summary has one row per (employee, concept) that received a positive
\* emission, with the sum of its emissions; every emitted concept is in the
\* percentage table; and every permutation of the records gives the same rows.
C8_ResumenDeterminista ==
    pc = "done" =>
        /\ \A k \in 1 .. Len(conceptos) :
              conceptos[k][3] > 0 /\ conceptos[k][2] \in DOMAIN PORCENTAJES
        /\ \A a, b \in 1 .. Len(resumen) :
              (resumen[a].NOMBRE = resumen[b].NOMBRE
               /\ resumen[a].CONCEPTO = resumen[b].CONCEPTO) => a = b
        /\ {<<resumen[a].NOMBRE, resumen[a].CONCEPTO>> : a \in 1 .. Len(resumen)}
             = {<<conceptos[k][1], Etiqueta(conceptos[k][2])>> :
                    k \in 1 .. Len(conceptos)}
        /\ \A a \in 1 .. Len(resumen) :
              resumen[a].HORAS
                = SumSeq([k \in 1 .. Len(conceptos) |->
                     IF conceptos[k][1] = resumen[a].NOMBRE
                        /\ Etiqueta(conceptos[k][2]) = resumen[a].CONCEPTO
                     THEN conceptos[k][3] ELSE 0])
        /\ \A p \in Permutations(1 .. Len(df)) :
              ProcesarExcel(Permutar(df, p)) = resumen

C8_Testigo ==
    /\ pc = "done"
    /\ Len(df) = 2
    /\ df[1].NOMBRE = df[2].NOMBRE
    /\ df[1].FECHA = df[2].FECHA
    /\ df[1].INICIAL = df[2].INICIAL
    /\ df[1].FINAL # df[2].FINAL
    /\ Len(resumen) >= 3
    /\ Len(conceptos) > Len(resumen)

\* C10: a segment on a holiday of its own year takes the premium path, also
\* when no entry is declared in that year.
C10_FestivoDelAnoDelSegmento ==
    \A k \in 1 .. Len(traza) :
        (traza[k].seg.dia \in festivos_colombia(Year(traza[k].seg.dia))) =>
            /\ traza[k].extra = 0
            /\ traza[k].ordinaria + traza[k].extra_festivo = traza[k].seg.dur

====
